---- MODULE Spec2Model ----
(***************************************************************************)
(* A model of minipack (src/src/minipack.js): createAsset, createGraph,    *)
(* bundle, and the loader that the emitted bundle text defines.            *)
(*                                                                         *)
(* A path is a sequence of segments ("./example/entry.js" is               *)
(* <<".", "example", "entry">>).  The file system is an input: the content *)
(* of a file is drawn when createAsset first reads it and stays the same   *)
(* for every later read of that file.                                      *)
(***************************************************************************)
EXTENDS Integers, Sequences, FiniteSets, TLC

\* ------------------------------------------------------------------ bounds
\* longest dependencies list one file may have
MaxDeps == 2
\* most require calls a module text makes besides its import declarations
MaxExtra == 1

\* ------------------------------------------------------------------ inputs
\* the paths below the working directory that a file may be at (normalised);
\* every other path has no file
Files == { <<"example", "entry">>, <<"example", "a">>, <<"example", "lib", "b">> }

\* the import strings a file may contain
Imports == { <<".", "a">>, <<".", "lib", "b">>, <<"..", "a">>, <<".", "b">> }

\* the entry path of the top-level run, './example/entry.js'
EntryPath == <<".", "example", "entry">>

\* sequences over S of length at most n
RECURSIVE SeqsUpTo(_, _)
SeqsUpTo(S, n) ==
  IF n = 0 THEN { <<>> }
  ELSE LET shorter == SeqsUpTo(S, n - 1)
       IN shorter \cup { Append(s, x) : s \in { t \in shorter : Len(t) = n - 1 }, x \in S }

DepLists == SeqsUpTo(Imports, MaxDeps)

\* what a read of a file can find: a module with its import declarations in
\* order, no file at all, a text babylon.parse rejects, or a text
\* transformFromAst rejects
Contents ==
  [status : {"ok"}, deps : DepLists]
    \cup [status : {"missing", "parse", "transform"}, deps : { <<>> }]

Missing == [status |-> "missing", deps |-> <<>>]

Unread == [status |-> "unread", deps |-> <<>>]

\* the largest graph an acyclic project over Files can give (the entry, its
\* children, their children), plus one: a queue this long shows a cycle
Ceiling == 1 + MaxDeps + MaxDeps * MaxDeps + 1

\* ------------------------------------------------------------------ paths
\* one step of path.normalize over the segments seen so far
NormStep(acc, seg) ==
  IF seg = "." THEN acc
  ELSE IF seg = ".."
    THEN IF acc # <<>> /\ acc[Len(acc)] # ".."
           THEN SubSeq(acc, 1, Len(acc) - 1)
           ELSE Append(acc, "..")
    ELSE Append(acc, seg)

RECURSIVE NormFrom(_, _)
NormFrom(acc, p) ==
  IF p = <<>> THEN acc ELSE NormFrom(NormStep(acc, Head(p)), Tail(p))

\* path.normalize of a relative path
Normalize(p) ==
  LET r == NormFrom(<<>>, p) IN IF r = <<>> THEN <<".">> ELSE r

\* path.dirname
Dirname(p) == IF Len(p) <= 1 THEN <<".">> ELSE SubSeq(p, 1, Len(p) - 1)

\* path.join(dirname, relativePath)
Join(dir, rel) == Normalize(dir \o rel)

\* the file fs.readFileSync(filename) opens
FileOf(filename) == Normalize(filename)

\* ------------------------------------------------------------------ state
VARIABLES
  fs,        \* file -> its content, Unread until createAsset reads it
  ID,        \* the module-level counter
  issued,    \* the ids createAsset has returned, in call order
  queue,     \* createGraph's queue of assets
  i,         \* position of the for-of loop in queue
  j,         \* position of forEach in the current asset's dependencies
  pc,        \* where the top-level run is
  error,     \* the exception that ended the run, "none" if none
  modules,   \* the table bundle() emitted, in text order; <<>> before
  bodyOf,    \* file -> what its transformed code does, drawn when first run
  stack,     \* the loader's pending require() calls, innermost last
  heap,      \* object -> the set of its property names
  runs,      \* table key -> how many times its function was invoked
  returned   \* the require() calls that returned: <<id, object>>, in order

build == <<fs, ID, issued, queue, i, j>>
loader == <<modules, bodyOf, stack, heap, runs, returned>>
vars == <<fs, ID, issued, queue, i, j, pc, error, modules, bodyOf, stack, heap, runs, returned>>

UnknownBody == [started |-> FALSE, reqs |-> <<>>, outcome |-> "unknown"]

\* the object createAsset returns
Asset(id, filename, dependencies) ==
  [id |-> id, filename |-> filename, dependencies |-> dependencies,
   code |-> FileOf(filename), hasMapping |-> FALSE, mapping |-> <<>>]

\* obj[key] = value on a JS object held as a function
Put(obj, key, value) ==
  [k \in DOMAIN obj \cup {key} |-> IF k = key THEN value ELSE obj[k]]

\* the contents a read of filename can give in this state
Readable(filename) ==
  IF FileOf(filename) \notin Files THEN { Missing }
  ELSE IF fs[FileOf(filename)].status = "unread" THEN Contents
  ELSE { fs[FileOf(filename)] }

\* the file system once filename was read as c
Remember(filename, c) ==
  IF FileOf(filename) \in Files THEN [fs EXCEPT ![FileOf(filename)] = c] ELSE fs

\* ++ID in place of ID++
PreIncrement(n) == [value |-> n + 1, counter |-> n + 1]

\* ID++: the value of the expression and the counter afterwards
PostIncrement(n) == [value |-> n, counter |-> n + 1]

\* the exception createAsset ends with when it reads c
ErrorOf(c) == IF c.status = "missing" THEN "read" ELSE c.status

\* forEach walking the array from its end
DepAtReversed(asset, k) == asset.dependencies[Len(asset.dependencies) - k + 1]

\* asset.dependencies.forEach: the element the j-th callback gets
DepAt(asset, k) == asset.dependencies[k]

\* asset.mapping[absolutePath] = child.id in place of the relative key
VisitKeyedByPath(q, at, relativePath, child) ==
  Append([q EXCEPT ![at].mapping = Put(@, child.filename, child.id)], child)

\* an asset already queued for the child's file is reused, the child dropped
VisitMemo(q, at, relativePath, child) ==
  IF \E k \in DOMAIN q : Normalize(q[k].filename) = Normalize(child.filename)
    THEN LET k == CHOOSE k \in DOMAIN q : Normalize(q[k].filename) = Normalize(child.filename)
         IN [q EXCEPT ![at].mapping = Put(@, relativePath, q[k].id)]
    ELSE Append([q EXCEPT ![at].mapping = Put(@, relativePath, child.id)], child)

\* the callback writing the key into the entry asset's mapping as well
VisitAlsoEntry(q, at, relativePath, child) ==
  Append([q EXCEPT ![at].mapping = Put(@, relativePath, child.id),
                   ![1].mapping = Put(@, relativePath, child.id)], child)

\* the callback dropping the child of an import string the asset's mapping
\* already has
VisitOnce(q, at, relativePath, child) ==
  IF relativePath \in DOMAIN q[at].mapping
    THEN q
    ELSE Append([q EXCEPT ![at].mapping = Put(@, relativePath, child.id)], child)

\* asset.mapping[relativePath] = child.id; queue.push(child)
Visit(q, at, relativePath, child) ==
  Append([q EXCEPT ![at].mapping = Put(@, relativePath, child.id)], child)

Init ==
  /\ fs = [f \in Files |-> Unread]
  /\ ID = 0
  /\ issued = <<>>
  /\ queue = <<>>
  /\ i = 0
  /\ j = 0
  /\ pc = "start"
  /\ error = "none"
  /\ modules = <<>>
  /\ bodyOf = [f \in Files |-> UnknownBody]
  /\ stack = <<>>
  /\ heap = <<>>
  /\ runs = <<>>
  /\ returned = <<>>

\* createGraph catching the exception and returning the queue it has
CreateAssetSwallows(filename, c) ==
  /\ pc' = "graph"
  /\ error' = IF c.status = "missing" THEN "read" ELSE c.status
  /\ ID' = ID
  /\ fs' = Remember(filename, c)

\* createAsset(filename) throws: readFileSync and babylon.parse before ID++,
\* transformFromAst after it; nothing catches, the process ends
CreateAssetThrows(filename, c) ==
  /\ pc' = "failed"
  /\ error' = ErrorOf(c)
  /\ ID' = IF c.status = "transform" THEN PostIncrement(ID).counter ELSE ID
  /\ fs' = Remember(filename, c)

\* const mainAsset = createAsset(entry); const queue = [mainAsset]
MainAsset ==
  /\ UNCHANGED loader
  /\ \E c \in Readable(EntryPath) :
       IF c.status # "ok"
         THEN /\ CreateAssetThrows(EntryPath, c)
              /\ UNCHANGED <<issued, queue, i, j>>
         ELSE /\ fs' = Remember(EntryPath, c)
              /\ ID' = PostIncrement(ID).counter
              /\ issued' = Append(issued, PostIncrement(ID).value)
              /\ queue' = << Asset(PostIncrement(ID).value, EntryPath, c.deps) >>
              /\ i' = 1
              /\ j' = 0
              /\ pc' = "loop"
              /\ UNCHANGED error

\* createGraph('./example/entry.js') called by the top-level run
CreateMain ==
  /\ pc = "start"
  /\ MainAsset

\* createGraph('./example/entry.js') called once more in the same process,
\* after the first call has returned its graph: the function starts again
\* with a queue of its own, the module-level ID is what the first call left
CreateGraphAgain ==
  /\ pc = "graph"
  /\ Len(issued) = Len(queue)
  /\ MainAsset

\* the loop giving a mapping only to an asset that has dependencies
LoopNextLazy ==
  /\ pc = "loop"
  /\ i <= Len(queue)
  /\ queue' = IF queue[i].dependencies = <<>>
                THEN queue
                ELSE [queue EXCEPT ![i].hasMapping = TRUE, ![i].mapping = <<>>]
  /\ j' = 1
  /\ pc' = "deps"
  /\ UNCHANGED <<fs, ID, issued, i, error>>
  /\ UNCHANGED loader

\* for (const asset of queue) { asset.mapping = {}; ...
LoopNext ==
  /\ pc = "loop"
  /\ i <= Len(queue)
  /\ queue' = [queue EXCEPT ![i].hasMapping = TRUE, ![i].mapping = <<>>]
  /\ j' = 1
  /\ pc' = "deps"
  /\ UNCHANGED <<fs, ID, issued, i, error>>
  /\ UNCHANGED loader

\* the forEach callback on one import string of asset
Callback(asset, relativePath) ==
  LET absolutePath == Join(Dirname(asset.filename), relativePath)
  IN \E c \in Readable(absolutePath) :
       IF c.status # "ok"
         THEN /\ CreateAssetThrows(absolutePath, c)
              /\ UNCHANGED <<issued, queue, i, j>>
         ELSE /\ fs' = Remember(absolutePath, c)
              /\ ID' = PostIncrement(ID).counter
              /\ issued' = Append(issued, PostIncrement(ID).value)
              /\ queue' = Visit(queue, i, relativePath,
                                Asset(PostIncrement(ID).value, absolutePath, c.deps))
              /\ j' = j + 1
              /\ UNCHANGED <<i, pc, error>>

\* the callback with a ceiling on the queue: a longer queue ends the run with
\* a CycleSuspected error
ExpandDepCeiling ==
  /\ pc = "deps"
  /\ j <= Len(queue[i].dependencies)
  /\ UNCHANGED loader
  /\ IF Len(queue) >= MaxDeps + 2
       THEN /\ pc' = "failed"
            /\ error' = "CycleSuspected"
            /\ UNCHANGED <<fs, ID, issued, queue, i, j>>
       ELSE Callback(queue[i], DepAt(queue[i], j))

\* one call of the forEach callback, on asset.dependencies[j]; the model
\* follows the queue up to Ceiling assets
ExpandDep ==
  /\ pc = "deps"
  /\ j <= Len(queue[i].dependencies)
  /\ Len(queue) < Ceiling
  /\ UNCHANGED loader
  /\ Callback(queue[i], DepAt(queue[i], j))

\* forEach is over: the for-of loop moves to the next asset
DepsDone ==
  /\ pc = "deps"
  /\ j > Len(queue[i].dependencies)
  /\ i' = i + 1
  /\ j' = 0
  /\ pc' = "loop"
  /\ UNCHANGED <<fs, ID, issued, queue, error>>
  /\ UNCHANGED loader

\* the for-of loop is over: return queue
ReturnGraph ==
  /\ pc = "loop"
  /\ i > Len(queue)
  /\ pc' = "graph"
  /\ UNCHANGED <<fs, ID, issued, queue, i, j, error>>
  /\ UNCHANGED loader

\* ------------------------------------------------------------------ bundle
\* JSON.stringify(mod.mapping), read back as the object literal in the text
Stringify(mod) ==
  [defined |-> mod.hasMapping,
   keys |-> IF mod.hasMapping THEN mod.mapping ELSE <<>>]

\* the text bundle() adds to modules for one asset: `${mod.id}: [fn, mapping],`
TableEntry(mod) ==
  [key |-> mod.id, fn |-> mod.code, mapping |-> Stringify(mod)]

\* bundle leaving out the assets that no mapping of the graph names
BundleReferenced ==
  /\ pc = "graph"
  /\ LET Named(mod) ==
           \/ mod.id = 0
           \/ \E k \in DOMAIN queue : \E s \in DOMAIN queue[k].mapping :
                queue[k].mapping[s] = mod.id
         kept == SelectSeq(queue, Named)
     IN modules' = [k \in 1..Len(kept) |-> TableEntry(kept[k])]
  /\ pc' = "bundled"
  /\ UNCHANGED <<build, error, bodyOf, stack, heap, runs, returned>>

\* const result = bundle(graph)
Bundle ==
  /\ pc = "graph"
  /\ modules' = [k \in 1..Len(queue) |-> TableEntry(queue[k])]
  /\ pc' = "bundled"
  /\ UNCHANGED <<build, error, bodyOf, stack, heap, runs, returned>>

\* ------------------------------------------------------------------ loader
\* the positions of the object literal that carry the key id
Positions(id) == { k \in 1..Len(modules) : modules[k].key = id }

HasEntry(id) == Positions(id) # {}

\* modules[id]: of two properties with one key the later one stands
Lookup(id) ==
  modules[CHOOSE k \in Positions(id) : \A m \in Positions(id) : m <= k]

\* deps without the later occurrences of a repeated string
RECURSIVE Dedup(_)
Dedup(deps) ==
  IF deps = <<>> THEN <<>>
  ELSE LET front == SubSeq(deps, 1, Len(deps) - 1)
           last == deps[Len(deps)]
       IN IF \E k \in 1..Len(front) : front[k] = last
            THEN Dedup(front)
            ELSE Append(Dedup(front), last)

Range(seq) == { seq[k] : k \in 1..Len(seq) }

\* the require calls of the code transformFromAst gives for a file: the ones
\* that stand for its import declarations, hoisted, in order (one for each
\* declaration or one for each distinct source), then the ones the text
\* itself makes on its import strings
RequiresOf(deps) ==
  { hoisted \o extra :
      hoisted \in { Dedup(deps), deps },
      extra \in SeqsUpTo(Range(deps), MaxExtra) }

\* what the code of a file can do: its require calls, drawn when the code
\* first starts, then its own statements
BodiesOf(file) ==
  IF ~bodyOf[file].started
    THEN [started : {TRUE}, reqs : RequiresOf(fs[file].deps), outcome : {"unknown"}]
    ELSE { bodyOf[file] }

\* what the own statements of the code of a file can do, drawn when they first
\* run: leave exports as it is, set a property of exports, give module.exports
\* a new object, or throw
OutcomesOf(file) ==
  IF bodyOf[file].outcome = "unknown"
    THEN {"keep", "assign", "replace", "throw"}
    ELSE { bodyOf[file].outcome }

Count(id) == IF id \in DOMAIN runs THEN runs[id] ELSE 0

\* const module = { exports : {} }; fn(localRequire, module, module.exports)
Frame(id, obj) ==
  [id |-> id, next |-> 1, exports |-> obj, module |-> obj, got |-> 0, finished |-> FALSE]

\* require with a cache: an id that returned before gives the same object
\* again and its function is not invoked
RequireCached(id, callers) ==
  IF ~HasEntry(id)
    THEN /\ stack' = <<>>
         /\ pc' = "threw"
         /\ UNCHANGED <<bodyOf, heap, runs, returned>>
    ELSE IF \E r \in DOMAIN returned : returned[r][1] = id
      THEN LET r == CHOOSE r \in DOMAIN returned : returned[r][1] = id
           IN /\ stack' = Append(callers, [Frame(id, returned[r][2]) EXCEPT !.finished = TRUE])
              /\ pc' = "running"
              /\ UNCHANGED <<bodyOf, heap, runs, returned>>
      ELSE \E b \in BodiesOf(Lookup(id).fn) :
             /\ bodyOf' = [bodyOf EXCEPT ![Lookup(id).fn] = b]
             /\ heap' = Append(heap, {})
             /\ stack' = Append(callers, Frame(id, Len(heap) + 1))
             /\ runs' = Put(runs, id, Count(id) + 1)
             /\ pc' = "running"
             /\ UNCHANGED returned

\* require(id), called with the stack callers
Require(id, callers) ==
  IF ~HasEntry(id)
    THEN /\ stack' = <<>>
         /\ pc' = "threw"
         /\ UNCHANGED <<bodyOf, heap, runs, returned>>
    ELSE \E b \in BodiesOf(Lookup(id).fn) :
           /\ bodyOf' = [bodyOf EXCEPT ![Lookup(id).fn] = b]
           /\ heap' = Append(heap, {})
           /\ stack' = Append(callers, Frame(id, Len(heap) + 1))
           /\ runs' = Put(runs, id, Count(id) + 1)
           /\ pc' = "running"
           /\ UNCHANGED returned

\* the loader starting at the last entry of the table
RunBundleLast ==
  /\ pc = "bundled"
  /\ Require(modules[Len(modules)].key, <<>>)
  /\ UNCHANGED <<build, error, modules>>

\* require(0)
RunBundle ==
  /\ pc = "bundled"
  /\ Require(0, <<>>)
  /\ UNCHANGED <<build, error, modules>>

Top == stack[Len(stack)]

TopBody == bodyOf[Lookup(Top.id).fn]

\* the running body calls localRequire(name): return require(mapping[name])
LocalRequire ==
  /\ pc = "running"
  /\ ~Top.finished
  /\ Top.next <= Len(TopBody.reqs)
  /\ LET name == TopBody.reqs[Top.next]
         mapping == Lookup(Top.id).mapping
         callers == [stack EXCEPT ![Len(stack)].next = @ + 1]
     IN IF mapping.defined /\ name \in DOMAIN mapping.keys
          THEN Require(mapping.keys[name], callers)
          ELSE /\ stack' = <<>>
               /\ pc' = "threw"
               /\ UNCHANGED <<bodyOf, heap, runs, returned>>
  /\ UNCHANGED <<build, error, modules>>

\* the body's own statements run to the end of the function
RunBody ==
  /\ pc = "running"
  /\ ~Top.finished
  /\ Top.next > Len(TopBody.reqs)
  /\ \E outcome \in OutcomesOf(Lookup(Top.id).fn) \ {"throw"} :
       /\ bodyOf' = [bodyOf EXCEPT ![Lookup(Top.id).fn].outcome = outcome]
       /\ CASE outcome = "keep" ->
                 /\ heap' = heap
                 /\ stack' = [stack EXCEPT ![Len(stack)].finished = TRUE]
            [] outcome = "assign" ->
                 /\ heap' = [heap EXCEPT ![Top.exports] = @ \cup {"default"}]
                 /\ stack' = [stack EXCEPT ![Len(stack)].finished = TRUE]
            [] outcome = "replace" ->
                 /\ heap' = Append(heap, {"default"})
                 /\ stack' = [stack EXCEPT ![Len(stack)].finished = TRUE,
                                           ![Len(stack)].module = Len(heap) + 1]
  /\ UNCHANGED <<build, pc, error, modules, runs, returned>>

\* require catching what the function throws and returning module.exports
ModuleThrowsCaught ==
  /\ pc = "running"
  /\ ~Top.finished
  /\ Top.next > Len(TopBody.reqs)
  /\ "throw" \in OutcomesOf(Lookup(Top.id).fn)
  /\ bodyOf' = [bodyOf EXCEPT ![Lookup(Top.id).fn].outcome = "throw"]
  /\ stack' = [stack EXCEPT ![Len(stack)].finished = TRUE]
  /\ UNCHANGED <<build, pc, error, modules, heap, runs, returned>>

\* the body throws: nothing in the loader catches it
ModuleThrows ==
  /\ pc = "running"
  /\ ~Top.finished
  /\ Top.next > Len(TopBody.reqs)
  /\ "throw" \in OutcomesOf(Lookup(Top.id).fn)
  /\ bodyOf' = [bodyOf EXCEPT ![Lookup(Top.id).fn].outcome = "throw"]
  /\ stack' = <<>>
  /\ pc' = "threw"
  /\ UNCHANGED <<build, error, modules, heap, runs, returned>>

\* return exports: the object the function was given, not module.exports
ResultExports(frame) == frame.exports

\* the object require hands back
Result(frame) == frame.module

\* return module.exports
ReturnExports ==
  /\ pc = "running"
  /\ Top.finished
  /\ returned' = Append(returned, <<Top.id, Result(Top)>>)
  /\ IF Len(stack) = 1
       THEN /\ stack' = <<>>
            /\ pc' = "done"
       ELSE /\ stack' = [SubSeq(stack, 1, Len(stack) - 1)
                           EXCEPT ![Len(stack) - 1].got = Result(Top)]
            /\ pc' = "running"
  /\ UNCHANGED <<build, error, modules, bodyOf, heap, runs>>

\* const graph = createGraph('./example/entry.js')
GraphNext == CreateMain \/ LoopNext \/ ExpandDep \/ DepsDone \/ ReturnGraph

Next ==
  \/ GraphNext
  \/ Bundle
  \/ RunBundle \/ LocalRequire \/ RunBody \/ ModuleThrows \/ ReturnExports

Spec == Init /\ [][Next]_vars

\* the same run in a process that calls createGraph a second time
AgainNext == Next \/ CreateGraphAgain

AgainSpec == Init /\ [][AgainNext]_vars

\* ------------------------------------------------------------------ claims
\* createGraph has just returned its queue to the top-level run
Returned == pc = "graph"

\* the path createGraph resolves the import string s of asset to
Resolved(asset, s) == Join(Dirname(asset.filename), s)

\* the positions of queue that hold the id n
Holding(n) == { k \in DOMAIN queue : queue[k].id = n }

\* C1: once createGraph has returned, the queue of N assets carries exactly the
\* ids 0..N-1, the asset at position i (counted from 0) has id i, the entry
\* asset is first with id 0; and every id createAsset returned is greater than
\* all the ids it returned before.
C1_DenseIds ==
  /\ \A a, b \in DOMAIN issued : a < b => issued[a] < issued[b]
  /\ Returned =>
       /\ Len(queue) >= 1
       /\ \A k \in DOMAIN queue : queue[k].id = k - 1
       /\ { queue[k].id : k \in DOMAIN queue } = 0..(Len(queue) - 1)
       /\ queue[1].filename = EntryPath
       /\ queue[1].id = 0
       /\ issued = [k \in DOMAIN queue |-> queue[k].id]

C1_Witness == pc = "graph" /\ Len(queue) >= 4

\* C2: once createGraph has returned, every import string s of every asset is
\* a key of the asset's mapping, and mapping[s] is the id of an asset of the
\* graph whose filename is path.join(dirname(asset.filename), s); an asset
\* without dependencies has the empty mapping.
C2_MappingComplete ==
  Returned =>
    \A p \in DOMAIN queue :
      /\ queue[p].hasMapping
      /\ \A s \in Range(queue[p].dependencies) :
           /\ s \in DOMAIN queue[p].mapping
           /\ \E m \in Holding(queue[p].mapping[s]) :
                queue[m].filename = Resolved(queue[p], s)
      /\ queue[p].dependencies = <<>> => DOMAIN queue[p].mapping = {}

C2_Witness ==
  /\ pc = "graph"
  /\ \E p, m \in DOMAIN queue :
       /\ <<"..", "a">> \in DOMAIN queue[p].mapping
       /\ queue[m].id = queue[p].mapping[<<"..", "a">>]
       /\ queue[m].filename = <<"example", "a">>
       /\ queue[m].dependencies = <<>>
       /\ queue[m].hasMapping

\* the number of import strings of the assets before position p
RECURSIVE DepsBefore(_)
DepsBefore(p) ==
  IF p <= 1 THEN 0 ELSE DepsBefore(p - 1) + Len(queue[p - 1].dependencies)

\* the position of the child made for the k-th import string of position p
ChildPos(p, k) == 1 + DepsBefore(p) + k

\* C3: ids follow breadth-first discovery: the children of the asset at one
\* position take consecutive ids in the order of its dependencies list, after
\* the children of every earlier position and before those of every later
\* one; an import string maps to the child of its last occurrence.  For an
\* entry importing A then B, A importing C, B and C importing nothing, the
\* graph is entry=0, A=1, B=2, C=3 with mappings {A: 1, B: 2} and {C: 3}.
C3_BreadthFirst ==
  Returned =>
    /\ \A p \in DOMAIN queue : \A k \in 1..Len(queue[p].dependencies) :
         /\ ChildPos(p, k) \in DOMAIN queue
         /\ queue[ChildPos(p, k)].id = ChildPos(p, k) - 1
         /\ queue[ChildPos(p, k)].filename = Resolved(queue[p], queue[p].dependencies[k])
         /\ (\A n \in (k + 1)..Len(queue[p].dependencies) :
                queue[p].dependencies[n] # queue[p].dependencies[k])
              => /\ queue[p].dependencies[k] \in DOMAIN queue[p].mapping
                 /\ queue[p].mapping[queue[p].dependencies[k]] = ChildPos(p, k) - 1
    /\ ( /\ Len(queue) >= 3
         /\ Len(queue[1].dependencies) = 2
         /\ queue[1].dependencies[1] # queue[1].dependencies[2]
         /\ Len(queue[2].dependencies) = 1
         /\ queue[3].dependencies = <<>>
         /\ \A k \in DOMAIN queue : k >= 4 => queue[k].dependencies = <<>> )
       => /\ Len(queue) = 4
          /\ queue[4].id = 3
          /\ queue[4].filename = Resolved(queue[2], queue[2].dependencies[1])
          /\ queue[1].mapping =
               [s \in Range(queue[1].dependencies) |->
                  IF s = queue[1].dependencies[1] THEN 1 ELSE 2]
          /\ queue[2].mapping = [s \in Range(queue[2].dependencies) |-> 3]

C3_Witness ==
  /\ pc = "graph"
  /\ Len(queue) = 4
  /\ queue[1].dependencies = << <<".", "a">>, <<".", "lib", "b">> >>
  /\ queue[2].dependencies = << <<".", "lib", "b">> >>
  /\ queue[2].filename = <<"example", "a">>
  /\ queue[3].filename = <<"example", "lib", "b">>
  /\ queue[4].filename = <<"example", "lib", "b">>

\* C4: createGraph reuses no asset: when import strings of two different
\* assets resolve to the same path, the graph holds two different assets of
\* that path with two different ids, and each importer's mapping names its
\* own one.
C4_NoReuse ==
  Returned =>
    \A p, q \in DOMAIN queue : \A s \in Range(queue[p].dependencies) :
      \A t \in Range(queue[q].dependencies) :
        (p # q /\ Resolved(queue[p], s) = Resolved(queue[q], t))
          => /\ s \in DOMAIN queue[p].mapping
             /\ t \in DOMAIN queue[q].mapping
             /\ queue[p].mapping[s] # queue[q].mapping[t]
             /\ \E m, n \in DOMAIN queue :
                  /\ m # n
                  /\ queue[m].id = queue[p].mapping[s]
                  /\ queue[n].id = queue[q].mapping[t]
                  /\ queue[m].filename = Resolved(queue[p], s)
                  /\ queue[n].filename = Resolved(queue[q], t)
                  /\ p < m
                  /\ q < n

C4_Witness ==
  /\ pc = "graph"
  /\ \E p, q \in DOMAIN queue :
       /\ p # q
       /\ queue[p].filename = EntryPath
       /\ queue[q].filename = <<"example", "a">>
       /\ <<".", "lib", "b">> \in DOMAIN queue[p].mapping
       /\ <<".", "lib", "b">> \in DOMAIN queue[q].mapping
       /\ queue[p].mapping[<<".", "lib", "b">>] # queue[q].mapping[<<".", "lib", "b">>]

\* the keys of the emitted table
Keys == { modules[k].key : k \in DOMAIN modules }

\* the require calls on id that have not returned yet, and those that have
Pending(id) == Cardinality({ k \in DOMAIN stack : stack[k].id = id })
Finished(id) == Cardinality({ r \in DOMAIN returned : returned[r][1] = id })

\* the ids the mapping of the table entry id names
MappedBy(id) ==
  IF HasEntry(id) /\ Lookup(id).mapping.defined
    THEN { Lookup(id).mapping.keys[name] : name \in DOMAIN Lookup(id).mapping.keys }
    ELSE {}

\* the ids that id 0 reaches through the mappings in at most n steps
RECURSIVE Reach(_)
Reach(n) ==
  IF n = 0 THEN {0}
  ELSE LET before == Reach(n - 1)
       IN before \cup UNION { MappedBy(id) : id \in before }

Reached == Reach(Len(modules))

\* every body that ran calls localRequire once for each distinct import string
OncePerImport ==
  \A f \in Files :
    bodyOf[f].started => bodyOf[f].reqs = Dedup(fs[f].deps)

\* C5 as stated: when the bundle has been executed, each function of the
\* table was invoked exactly once (taken in the runs that favour it most: the
\* run completes and no body requires an import string twice).
C5_Original ==
  (pc = "done" /\ OncePerImport) => \A id \in Keys : Count(id) = 1

\* C5 as amended: a function of the table is invoked once for each require
\* call that names its id, and only for an id that is 0 or that the mapping of
\* an invoked function names; when the run completes and every body calls
\* localRequire once for each distinct import string, the entries that id 0
\* reaches through the mappings were invoked exactly once and the others
\* never.
C5_OncePerRequire ==
  /\ pc \in {"running", "done"} =>
       \A id \in Keys : Count(id) = Pending(id) + Finished(id)
  /\ \A id \in DOMAIN runs :
       /\ id \in Keys
       /\ id = 0 \/ \E parent \in DOMAIN runs : id \in MappedBy(parent)
  /\ (pc = "done" /\ OncePerImport) =>
       \A id \in Keys : Count(id) = IF id \in Reached THEN 1 ELSE 0

C5_Witness ==
  /\ pc = "done"
  /\ OncePerImport
  /\ \E id \in Keys : id \notin Reached /\ Count(id) = 0
  /\ \E id \in Keys : id # 0 /\ Count(id) = 1

\* C6: the loader keeps no cache: two require calls on one id that returned
\* gave two different objects and each invoked the function of the id; the
\* module record of a pending call is an object no other call has or gave.
C6_NoCache ==
  /\ \A a, b \in DOMAIN returned :
       (a < b /\ returned[a][1] = returned[b][1]) => returned[a][2] # returned[b][2]
  /\ \A id \in Keys : Finished(id) <= Count(id)
  /\ \A k \in DOMAIN stack :
       /\ \A m \in DOMAIN stack : m # k => stack[m].exports # stack[k].exports
       /\ \A r \in DOMAIN returned : returned[r][2] # stack[k].exports

C6_Witness ==
  \E a, b \in DOMAIN returned :
    /\ a < b
    /\ returned[a][1] = returned[b][1]
    /\ Count(returned[a][1]) = 2

\* C7: a localRequire(name) call with name a key of the caller's mapping
\* starts the function of the id mapping[name], and when that function has
\* finished the caller gets the object then held in the callee's
\* module.exports, with the properties the callee gave it.
C7_RoundTrip ==
  [][ /\ (pc = "running" /\ pc' = "running" /\ Len(stack') = Len(stack) + 1)
          => /\ TopBody.reqs[Top.next] \in DOMAIN Lookup(Top.id).mapping.keys
             /\ stack'[Len(stack')].id = Lookup(Top.id).mapping.keys[TopBody.reqs[Top.next]]
      /\ (pc = "running" /\ Len(stack) >= 2 /\ Len(stack') = Len(stack) - 1)
          => /\ Top.finished
             /\ stack'[Len(stack')].got = Top.module
             /\ heap' = heap
             /\ TopBody.outcome \in {"assign", "replace"}
                  => "default" \in heap'[stack'[Len(stack')].got]
    ]_vars

C7_Witness ==
  /\ pc = "running"
  /\ returned # <<>>
  /\ Top.got = returned[Len(returned)][2]
  /\ bodyOf[Lookup(returned[Len(returned)][1]).fn].outcome = "replace"
  /\ "default" \in heap[Top.got]

\* the files that the file f imports, by resolved path
ImportedBy(f) ==
  IF fs[f].status = "ok"
    THEN { Join(Dirname(f), fs[f].deps[k]) : k \in 1..Len(fs[f].deps) } \cap Files
    ELSE {}

\* the files reached from the set S of files in at most n import steps
RECURSIVE Closure(_, _)
Closure(S, n) ==
  IF n = 0 THEN S
  ELSE LET before == Closure(S, n - 1)
       IN before \cup UNION { ImportedBy(f) : f \in before }

FromEntry == Closure({ FileOf(EntryPath) }, Cardinality(Files))

\* the imports read so far that the entry reaches contain a cycle
Cyclic ==
  \E f \in FromEntry : f \in Closure(ImportedBy(f), Cardinality(Files))

\* createGraph has as many assets as the model follows it to
AtCeiling == pc = "deps" /\ Len(queue) >= Ceiling

InGraph == pc \in {"start", "loop", "deps"}

\* what createGraph has done so far: assets queued, assets expanded, the
\* forEach entered, the call over
Progress ==
  Len(queue) + 3 * i + (IF pc = "deps" THEN 1 ELSE 0) + (IF InGraph THEN 0 ELSE 5)

CyclicPair ==
  /\ fs[<<"example", "entry">>].status = "ok"
  /\ fs[<<"example", "entry">>].deps # <<>>
  /\ Range(fs[<<"example", "entry">>].deps) \subseteq { <<".", "a">>, <<".", "lib", "b">> }
  /\ fs[<<"example", "a">>].deps = << <<".", "lib", "b">> >>
  /\ fs[<<"example", "lib", "b">>].deps = << <<"..", "a">> >>

\* C9 as stated: with a cyclic pair of modules, a queue grown past the
\* ceiling ends the run with a CycleSuspected error.
C9_Original ==
  (CyclicPair /\ Len(queue) >= Ceiling) => (pc = "failed" /\ error = "CycleSuspected")

\* C9 as amended: createGraph has no ceiling and no CycleSuspected error:
\* with a cyclic pair of modules the run stays in the loop of createGraph,
\* raises no error, returns no graph and emits nothing; every queued asset
\* has an import of a file that exists, so the for-of loop always has an
\* asset left and every turn of it queues another one.
C9_NoCeiling ==
  /\ error # "CycleSuspected"
  /\ CyclicPair =>
       /\ pc \in {"loop", "deps"}
       /\ error = "none"
       /\ modules = <<>>
       /\ i <= Len(queue)
       /\ \A k \in DOMAIN queue : queue[k].dependencies # <<>>
       /\ \A k \in DOMAIN queue : \A s \in Range(queue[k].dependencies) :
            Resolved(queue[k], s) \in Files

C9_Witness == CyclicPair /\ AtCeiling

\* C10: the build is fail-fast: a createAsset call that fails ends the run
\* inside createGraph with its exception, no graph is returned, bundle is not
\* called, nothing is emitted or executed; a missing entry file gives a read
\* error with no id issued and no asset made.
C10_FailFast ==
  /\ error # "none" <=> pc = "failed"
  /\ \A f \in Files :
       fs[f].status \in {"missing", "parse", "transform"}
         => (pc = "failed" /\ error = ErrorOf(fs[f]))
  /\ pc = "failed" =>
       /\ modules = <<>>
       /\ stack = <<>> /\ heap = <<>> /\ runs = <<>> /\ returned = <<>>
       /\ queue = <<>> \/ (i <= Len(queue) /\ j <= Len(queue[i].dependencies))
  /\ fs[FileOf(EntryPath)].status = "missing" =>
       (error = "read" /\ ID = 0 /\ issued = <<>> /\ queue = <<>>)

C10_Witness ==
  /\ pc = "failed"
  /\ error = "parse"
  /\ Len(queue) >= 3
  /\ i = 2

\* the ids with a require call that was made and has not returned
Unreturned == { id \in Keys : Count(id) > Finished(id) }

\* the function of some table entry has thrown
SomeBodyThrew == \E f \in Files : bodyOf[f].outcome = "throw"

\* C11: when the function of a module throws, the require call on its id
\* returns no object, and neither does any require call pending above it, up
\* to require(0): the whole stack of calls is gone in the one step, nothing is
\* returned or written in it, the run is over with the exception and takes no
\* further step, so no importer runs a statement after its failing
\* localRequire call.
C11_ThrowUnwinds ==
  /\ [](SomeBodyThrew => pc = "threw")
  /\ [](pc = "threw" =>
          /\ stack = <<>>
          /\ Count(0) = 1
          /\ Finished(0) = 0)
  /\ [][ (pc = "running" /\ pc' = "threw")
           => /\ stack' = <<>>
              /\ returned' = returned
              /\ heap' = heap
              /\ runs' = runs
              /\ \A k \in DOMAIN stack : stack[k].id \in Unreturned'
              /\ \A k \in DOMAIN stack : ~stack[k].finished
       ]_vars
  /\ [][pc # "threw"]_vars

C11_Witness ==
  /\ pc = "threw"
  /\ SomeBodyThrew
  /\ Cardinality(Unreturned) >= 3

\* C12 as stated: in every call of createGraph, a second one after the first
\* has returned included, the counter starts from 0: the entry asset of the
\* call has id 0, and the table emitted from its graph has the entry module
\* under key 0, where require(0) starts.
C12_Original ==
  /\ queue # <<>> => (queue[1].filename = EntryPath /\ queue[1].id = 0)
  /\ modules # <<>> => (HasEntry(0) /\ Lookup(0).fn = FileOf(EntryPath))
  /\ pc \in {"running", "done"} => Count(0) >= 1

\* the entry file was read as a module without import declarations
ZeroImports ==
  /\ fs[FileOf(EntryPath)].status = "ok"
  /\ fs[FileOf(EntryPath)].deps = <<>>

\* C13: for an entry file without imports, createGraph returns a graph of
\* exactly one asset, the entry, with id 0 and the empty mapping; the table
\* bundle emits has exactly one entry, key 0 with the entry's code and the
\* mapping {}; executing the bundle invokes that function, once, and no
\* other function.
C13_SingleModule ==
  ZeroImports =>
    /\ pc # "failed" /\ error = "none"
    /\ Len(queue) = 1
    /\ queue[1].id = 0
    /\ queue[1].filename = EntryPath
    /\ ID = 1
    /\ pc \in {"graph", "bundled", "running", "done", "threw"} =>
         /\ queue[1].hasMapping
         /\ DOMAIN queue[1].mapping = {}
    /\ pc \in {"bundled", "running", "done", "threw"} =>
         /\ Len(modules) = 1
         /\ modules[1].key = 0
         /\ modules[1].fn = FileOf(EntryPath)
         /\ modules[1].mapping.defined
         /\ DOMAIN modules[1].mapping.keys = {}
    /\ DOMAIN runs \subseteq {0}
    /\ Len(stack) <= 1
    /\ \A k \in DOMAIN stack : stack[k].id = 0
    /\ pc \in {"running", "done", "threw"} => Count(0) = 1
    /\ \A r \in DOMAIN returned : returned[r][1] = 0
    /\ \A f \in Files : bodyOf[f].started => f = FileOf(EntryPath)

C13_Witness ==
  /\ ZeroImports
  /\ pc = "done"
  /\ Len(modules) = 1
  /\ Count(0) = 1
  /\ Len(returned) = 1
  /\ bodyOf[FileOf(EntryPath)].outcome = "assign"

\* the ids that the localRequire calls of the function of entry id can ask
\* for: its mapping read at the names the body requires
Demanded(id) ==
  IF HasEntry(id) /\ Lookup(id).mapping.defined /\ bodyOf[Lookup(id).fn].started
    THEN { Lookup(id).mapping.keys[name] :
             name \in Range(bodyOf[Lookup(id).fn].reqs)
                        \cap DOMAIN Lookup(id).mapping.keys }
    ELSE {}

\* C14: the bundle executes on demand.  The loader starts the function of id
\* 0 and no other: the outermost pending call is require(0).  Every other
\* call is on an id that the mapping of the call just above it names for a
\* name that caller requires, and it starts in a step of that caller, which
\* is running and not finished.  While a call is pending below another one
\* its frame does not change; it takes a step again only when the call it
\* made has returned, and then gets only that call's result.  A table entry
\* whose id no localRequire call of an invoked function asks for is never
\* invoked.
C14_OnDemand ==
  /\ [](stack # <<>> => stack[1].id = 0)
  /\ [](\A k \in DOMAIN stack : k > 1 =>
          /\ stack[k].id \in Demanded(stack[k - 1].id)
          /\ ~stack[k - 1].finished
          /\ stack[k - 1].next > 1)
  /\ [](\A id \in DOMAIN runs :
          /\ runs[id] >= 1
          /\ id = 0 \/ \E parent \in DOMAIN runs : id \in Demanded(parent))
  /\ [](pc \in {"start", "loop", "deps", "graph", "bundled", "failed"} =>
          (runs = <<>> /\ stack = <<>>))
  /\ [][ /\ runs' # runs =>
              /\ Len(stack') = Len(stack) + 1
              /\ runs' = Put(runs, stack'[Len(stack')].id, Count(stack'[Len(stack')].id) + 1)
              /\ stack = <<>> => pc = "bundled"
              /\ stack # <<>> =>
                   /\ pc = "running"
                   /\ ~Top.finished
                   /\ Top.next <= Len(TopBody.reqs)
                   /\ stack'[Len(stack')].id = Lookup(Top.id).mapping.keys[TopBody.reqs[Top.next]]
         /\ \A k \in DOMAIN stack \cap DOMAIN stack' :
              k < Len(stack) =>
                IF k < Len(stack')
                  THEN stack'[k] = stack[k]
                  ELSE /\ Top.finished
                       /\ stack'[k] = [stack[k] EXCEPT !.got = Result(Top)]
       ]_vars

C14_Witness ==
  /\ pc = "running"
  /\ Len(stack) = 3
  /\ Top.finished
  /\ \E id \in Keys : Count(id) = 0 /\ id \in Demanded(stack[1].id)
  /\ \E id \in Keys : Count(id) = 0 /\ \A parent \in Keys : id \notin MappedBy(parent)

\* bundle(graph) has been called
Emitted == pc \in {"bundled", "running", "done", "threw"}

\* C15: the table bundle emits has one entry for each asset of the graph, in
\* the order of the graph: the entry at a position has the id of the asset at
\* that position as its key, that asset's code as its function and that
\* asset's mapping, key for key, as its mapping.  For the graph createGraph
\* returned the keys are pairwise different, and every id a mapping of the
\* table holds is a key of the table: a localRequire call on a name of the
\* caller's mapping finds its entry, and the run ends with an exception only
\* when a module function throws.
C15_TableMatchesGraph ==
  /\ [](~Emitted => modules = <<>>)
  /\ [](Emitted =>
          /\ Len(modules) = Len(queue)
          /\ \A k \in DOMAIN modules :
               /\ modules[k].key = queue[k].id
               /\ modules[k].fn = queue[k].code
               /\ modules[k].mapping.defined
               /\ modules[k].mapping.keys = queue[k].mapping
          /\ \A k, m \in DOMAIN modules : k # m => modules[k].key # modules[m].key
          /\ \A id \in Keys : MappedBy(id) \subseteq Keys
          /\ \A id \in Keys : Cardinality(Positions(id)) = 1
          /\ pc = "threw" => SomeBodyThrew)
  /\ [][ (pc = "running" /\ Len(stack') = Len(stack) + 1)
           => /\ TopBody.reqs[Top.next] \in DOMAIN Lookup(Top.id).mapping.keys
              /\ HasEntry(Lookup(Top.id).mapping.keys[TopBody.reqs[Top.next]])
              /\ pc' = "running"
       ]_vars

C15_Witness ==
  /\ pc = "done"
  /\ Len(modules) = 4
  /\ modules[1].mapping.keys # <<>>
  /\ \E k, m \in DOMAIN modules :
       /\ k < m
       /\ modules[k].fn = modules[m].fn
       /\ modules[k].key # modules[m].key
       /\ Count(modules[k].key) = 1
       /\ Count(modules[m].key) = 1

\* C16: an asset in the queue keeps the id, filename, dependencies and code
\* createAsset gave it.  createGraph gives each asset its mapping once, when
\* the for-of loop comes to it, and writes a key into a mapping only in a
\* forEach callback of the asset the loop is on, one key for the child the
\* callback queues; an asset enters the queue at its end, without a mapping.
\* Once createGraph has returned, bundle and everything after it leave the
\* queue as it is: the same assets, in the same order.
C16_Frame ==
  /\ [](\A k \in DOMAIN queue :
          queue[k].hasMapping <=> (k < i \/ (k = i /\ pc # "loop")))
  /\ [][ /\ Len(queue') >= Len(queue)
         /\ \A k \in DOMAIN queue :
              /\ queue'[k].id = queue[k].id
              /\ queue'[k].filename = queue[k].filename
              /\ queue'[k].dependencies = queue[k].dependencies
              /\ queue'[k].code = queue[k].code
              /\ queue[k].hasMapping => queue'[k].hasMapping
              /\ queue'[k].hasMapping # queue[k].hasMapping =>
                   /\ pc = "loop"
                   /\ k = i
                   /\ queue'[k].mapping = <<>>
                   /\ queue' = [queue EXCEPT ![k].hasMapping = TRUE]
              /\ queue'[k].mapping # queue[k].mapping =>
                   /\ pc = "deps"
                   /\ k = i
                   /\ queue[k].hasMapping
                   /\ Len(queue') = Len(queue) + 1
                   /\ queue'[k].mapping =
                        Put(queue[k].mapping, DepAt(queue[k], j), queue'[Len(queue')].id)
         /\ \A k \in DOMAIN queue' \ DOMAIN queue :
              /\ k = Len(queue) + 1
              /\ ~queue'[k].hasMapping
              /\ queue'[k].mapping = <<>>
              /\ pc \in {"start", "deps"}
         /\ pc \in {"graph", "bundled", "running", "done", "threw", "failed"}
              => queue' = queue
       ]_vars

C16_Witness ==
  /\ pc = "bundled"
  /\ Len(queue) = 3
  /\ Len(queue[1].dependencies) = 1
  /\ Len(queue[2].dependencies) = 1
  /\ DOMAIN queue[1].mapping = Range(queue[1].dependencies)
  /\ DOMAIN queue[2].mapping = Range(queue[2].dependencies)
  /\ queue[2].mapping[queue[2].dependencies[1]] = 2
  /\ Len(modules) = 3

\* the mapping entries of the graph, as <<position, key>>, whose value is id
Referrers(id) ==
  { e \in (DOMAIN queue) \X Imports :
      /\ e[2] \in DOMAIN queue[e[1]].mapping
      /\ queue[e[1]].mapping[e[2]] = id }

\* C17: the graph createGraph returned has one asset for the entry and one
\* for every element of every dependencies list in it, repeated strings
\* counted each time.  The id of an asset other than the entry is the value
\* of at most one mapping entry of the whole graph, id 0 of none.  When a
\* dependencies list has one string at two places, both places have a child
\* of their own in the queue, built from the same path with different ids;
\* the mapping key holds the id of the child of the last place, and no
\* mapping entry holds the id of the child of an earlier place.
C17_OneChildPerImport ==
  Returned =>
    /\ Len(queue) = 1 + DepsBefore(Len(queue) + 1)
    /\ Referrers(0) = {}
    /\ \A p \in DOMAIN queue : Cardinality(Referrers(queue[p].id)) <= 1
    /\ \A p \in DOMAIN queue : \A k, n \in 1..Len(queue[p].dependencies) :
         (k < n /\ queue[p].dependencies[k] = queue[p].dependencies[n]) =>
           /\ ChildPos(p, k) \in DOMAIN queue
           /\ ChildPos(p, n) \in DOMAIN queue
           /\ queue[ChildPos(p, k)].filename = queue[ChildPos(p, n)].filename
           /\ queue[ChildPos(p, k)].id # queue[ChildPos(p, n)].id
           /\ queue[p].mapping[queue[p].dependencies[k]] # queue[ChildPos(p, k)].id
           /\ Referrers(queue[ChildPos(p, k)].id) = {}
           /\ (\A m \in (n + 1)..Len(queue[p].dependencies) :
                  queue[p].dependencies[m] # queue[p].dependencies[n])
                => /\ queue[p].mapping[queue[p].dependencies[n]] = queue[ChildPos(p, n)].id
                   /\ Referrers(queue[ChildPos(p, n)].id) = { <<p, queue[p].dependencies[n]>> }

C17_Witness ==
  /\ pc = "graph"
  /\ Len(queue) = 5
  /\ Len(queue[1].dependencies) = 2
  /\ queue[1].dependencies[1] = queue[1].dependencies[2]
  /\ Referrers(1) = {}
  /\ Referrers(2) = { <<1, queue[1].dependencies[1]>> }
  /\ Referrers(3) # {}
====
